---- MODULE Spec2Model ----
(***************************************************************************)
(* Online and batch update rules of the rsrl engine: Watkins' Q(lambda),   *)
(* Greedy-GQ, LSTD(lambda), the actor-critic agent and the Boltzmann       *)
(* policy.                                                                 *)
(*                                                                         *)
(* Numbers.  The code computes in f64.  The model computes in the integers: *)
(* on the small integer inputs drawn here every f64 operation of the       *)
(* update rules is exact, so the integer is the value the code holds.      *)
(* Solved weights and probabilities are exact fractions num/den; the       *)
(* rounding of f64 division and of exp is not modelled.                    *)
(*                                                                         *)
(* Each algorithm object is one variable, a record with the fields of the  *)
(* Rust struct.  The ...Call variables record the last call the driving    *)
(* loop made on the object (its arguments, the values the policies drew,   *)
(* the object before the call, what it returned) and count the calls; they *)
(* are history, not program state.                                         *)
(***************************************************************************)
EXTENDS Integers, Sequences, FiniteSets, TLC

VARIABLES ql, qlCall, gq, gqCall, lstd, lstdCall, ac, acCall, bz, bzCall

vars == <<ql, qlCall, gq, gqCall, lstd, lstdCall, ac, acCall, bz, bzCall>>

(***************************************************************************)
(* Bounds of the model.                                                    *)
(***************************************************************************)
\* calls the driving loop makes on a QLambda object
MaxCalls == 3

\* calls the driving loop makes on a GreedyGQ object
MaxGQCalls == 2

\* calls on each of the two learners when both are driven side by side
MaxParamCalls == 3

\* calls the driving loop makes on an ActorCritic object
MaxACCalls == 2

\* the longest score or probability vector handed to a policy
MaxScores == 3

\* the uniform draw r is one of 0/RngSteps, ..., (RngSteps - 1)/RngSteps
RngSteps == 4

\* what the driving loop spends on one LSTDLambda object: one per transition
\* submitted, one per empty batch and one per handle_terminal
MaxLSTDWork == 2

\* an object the specification at hand does not construct
Idle == "idle"

(***************************************************************************)
(* core: vectors, Parameter, Trace.                                        *)
(***************************************************************************)
Max(a, b) == IF a >= b THEN a ELSE b

RECURSIVE SumTo(_, _)
SumTo(v, n) == IF n = 0 THEN 0 ELSE v[n] + SumTo(v, n - 1)

Sum(v) == SumTo(v, Len(v))

Zeros(n) == [i \in 1..n |-> 0]

VAdd(u, v) == [i \in 1..Len(u) |-> u[i] + v[i]]

VScale(c, v) == [i \in 1..Len(v) |-> c * v[i]]

Dot(u, v) == Sum([i \in 1..Len(u) |-> u[i] * v[i]])

\* Parameter: a value with a decay schedule.  Fixed keeps its value; Linear
\* loses one per step down to its floor.
Fixed(x) == [kind |-> "Fixed", init |-> x, floor |-> x, count |-> 0]

Linear(x, lo) == [kind |-> "Linear", init |-> x, floor |-> lo, count |-> 0]

Value(p) == IF p.kind = "Fixed" THEN p.init ELSE Max(p.init - p.count, p.floor)

Step(p) == IF p.kind = "Fixed" THEN p ELSE [p EXCEPT !.count = @ + 1]

RECURSIVE StepN(_, _)
StepN(p, n) == IF n = 0 THEN p ELSE Step(StepN(p, n - 1))

\* Trace: {lambda, accumulator}; decay scales in place, update accumulates.
TraceDecay(tr, rate) == [tr EXCEPT !.acc = VScale(rate, @)]

TraceUpdate(tr, phi) == [tr EXCEPT !.acc = VAdd(@, phi)]

TraceGet(tr) == tr.acc

(***************************************************************************)
(* fa: the projector and the linear approximators.                         *)
(***************************************************************************)
States == {1, 2}

Actions == {0, 1}

Rewards == {0, 1}

Dense(v) == [kind |-> "Dense", v |-> v]

Sparse(ix) == [kind |-> "Sparse", ix |-> ix]

\* The projector shared by the approximators: state 1 activates feature 1
\* alone (a sparse projection), state 2 has the dense features (1, 2).
Projector == [dim |-> 2, phi |-> [s \in States |-> IF s = 1 THEN Sparse({1}) ELSE Dense(<<1, 2>>)]]

Dim == Projector.dim

Project(s) == Projector.phi[s]

\* Projection::expanded(dim): the dense vector of a possibly sparse projection.
Expanded(phi, dim) ==
    IF phi.kind = "Dense" THEN phi.v
    ELSE [i \in 1..dim |-> IF i \in phi.ix THEN 1 ELSE 0]

\* weights . phi
EvaluatePhi(w, phi) == Dot(w, Expanded(phi, Len(w)))

\* weights += error * phi
UpdatePhi(w, phi, error) == VAdd(w, VScale(error, Expanded(phi, Len(w))))

\* MultiLFA: one weight column per action.
MultiEvaluatePhi(theta, phi) == [a \in DOMAIN theta |-> EvaluatePhi(theta[a], phi)]

MultiEvaluate(theta, s) == MultiEvaluatePhi(theta, Project(s))

EvaluateActionPhi(theta, phi, a) == EvaluatePhi(theta[a], phi)

UpdateActionPhi(theta, phi, a, error) == [theta EXCEPT ![a] = UpdatePhi(@, phi, error)]

\* Greedy::sample: an action of maximal value under the shared weights.  How
\* ties are broken is left open: any maximal action may be returned.
Argmaxima(qs) == {a \in DOMAIN qs : \A b \in DOMAIN qs : qs[a] >= qs[b]}

GreedySample(theta, s) == Argmaxima(MultiEvaluate(theta, s))

Transition(s, ns, a, r) == [from |-> s, to |-> ns, action |-> a, reward |-> r]

Transitions == {Transition(s, ns, a, r) : s \in States, ns \in States, a \in Actions, r \in Rewards}

(***************************************************************************)
(* control/td/q_lambda.rs                                                  *)
(***************************************************************************)
\* QLTraceCut without Watkins' cut: the trace decays whatever the action.
QLTraceCut_AlwaysDecay(q, t, g_s) ==
    TraceDecay(q.trace, Value(q.trace.lambda) * Value(q.gamma))

\* The decay applied to the trace by handle_sample, given the greedy action
\* `g_s` the target policy returned at the from-state.
QLTraceCut(q, t, g_s) ==
    IF t.action = g_s
    THEN TraceDecay(q.trace, Value(q.trace.lambda) * Value(q.gamma))
    ELSE TraceDecay(q.trace, 0)

QLTdError(q, t, g_ns) ==
    LET qs == MultiEvaluatePhi(q.fa_theta, Project(t.from))
        nqs == MultiEvaluate(q.fa_theta, t.to)
    IN t.reward + Value(q.gamma) * nqs[g_ns] - qs[t.action]

\* QLambda::handle_sample; g_ns and g_s are what target.sample returned at
\* t.to and t.from (both drawn before the weights change).
QLHandleSample(q, t, g_ns, g_s) ==
    LET td_error == QLTdError(q, t, g_ns)
        trace == TraceUpdate(QLTraceCut(q, t, g_s), Expanded(Project(t.from), Dim))
    IN [q EXCEPT !.trace = trace,
                 !.fa_theta = UpdateActionPhi(q.fa_theta, Dense(TraceGet(trace)),
                                              t.action, td_error * Value(q.alpha))]

\* handle_terminal that steps the parameters and forgets the trace.
QLHandleTerminal_KeepTrace(q) ==
    [q EXCEPT !.alpha = Step(q.alpha),
              !.gamma = Step(q.gamma),
              !.policy = [c |-> Step(q.policy.c)]]

\* QLambda::handle_terminal
QLHandleTerminal(q) ==
    [q EXCEPT !.alpha = Step(q.alpha),
              !.gamma = Step(q.gamma),
              !.trace = TraceDecay(q.trace, 0),
              !.policy = [c |-> Step(q.policy.c)]]

\* QLambda::new, on the weights, trace and parameters the caller passes in.
QLNew(theta, lambda, alpha, gamma) ==
    [trace |-> [lambda |-> lambda, acc |-> Zeros(Dim)],
     fa_theta |-> theta,
     policy |-> [c |-> Linear(1, 0)],
     alpha |-> alpha,
     gamma |-> gamma]

ThetaInits == {[a \in Actions |-> Zeros(Dim)], [a \in Actions |-> IF a = 0 THEN <<1, 0>> ELSE <<0, 1>>]}

QLIdle == ql = Idle /\ qlCall = Idle

QLInitOf(thetas, alphas, gammas) ==
    /\ \E theta \in thetas, alpha \in alphas, gamma \in gammas :
          ql = QLNew(theta, Fixed(2), alpha, gamma)
    /\ qlCall = [op |-> "new", n |-> 0, samples |-> 0, terminals |-> 0, new |-> ql]

QLInit == QLInitOf(ThetaInits, {Fixed(1), Linear(2, 1)}, {Fixed(1), Linear(2, 0)})

QLSampleOf(ts, max) ==
    /\ qlCall.n < max
    /\ \E t \in ts :
         \E g_ns \in GreedySample(ql.fa_theta, t.to), g_s \in GreedySample(ql.fa_theta, t.from) :
            /\ ql' = QLHandleSample(ql, t, g_ns, g_s)
            /\ qlCall' = [op |-> "handle_sample", n |-> qlCall.n + 1,
                          samples |-> qlCall.samples + 1, terminals |-> qlCall.terminals,
                          new |-> qlCall.new, t |-> t, g_ns |-> g_ns, g_s |-> g_s, pre |-> ql,
                          dropped |-> IF qlCall.op = "handle_terminal"
                                      THEN qlCall.pre.trace.acc ELSE <<>>]

QLTerminalOf(max) ==
    /\ qlCall.n < max
    /\ ql' = QLHandleTerminal(ql)
    /\ qlCall' = [op |-> "handle_terminal", n |-> qlCall.n + 1, samples |-> qlCall.samples,
                  terminals |-> qlCall.terminals + 1, new |-> qlCall.new, pre |-> ql]

QLSample == QLSampleOf(Transitions, MaxCalls) /\ UNCHANGED <<gq, gqCall, lstd, lstdCall, ac, acCall, bz, bzCall>>

QLTerminal == QLTerminalOf(MaxCalls) /\ UNCHANGED <<gq, gqCall, lstd, lstdCall, ac, acCall, bz, bzCall>>

(***************************************************************************)
(* control/gtd/greedy_gq.rs                                                *)
(***************************************************************************)
GQTdEstimate(g, t) == EvaluatePhi(g.fa_w, Project(t.from))

\* td_error bootstrapping on the greedy (target) action at ns.
GQTdError_GreedyTarget(g, t, na) ==
    LET nqs == MultiEvaluate(g.fa_theta, t.to)
    IN t.reward + Value(g.gamma) * nqs[CHOOSE a \in Argmaxima(nqs) : TRUE]
                - EvaluateActionPhi(g.fa_theta, Project(t.from), t.action)

\* td_error of handle_sample; na is what mu(ns), the behaviour policy, drew.
GQTdError(g, t, na) ==
    t.reward + Value(g.gamma) * EvaluateActionPhi(g.fa_theta, Project(t.to), na)
             - EvaluateActionPhi(g.fa_theta, Project(t.from), t.action)

\* GreedyGQ::handle_sample
GQHandleSample(g, t, na) ==
    LET td_estimate == GQTdEstimate(g, t)
        td_error == GQTdError(g, t, na)
        phi_s == Expanded(Project(t.from), Dim)
        phi_ns == Expanded(Project(t.to), Dim)
        update_q == VAdd(VScale(td_error, phi_s), VScale(0 - Value(g.gamma) * td_estimate, phi_ns))
        update_v == VScale(td_error - td_estimate, phi_s)
    IN [g EXCEPT !.fa_w = UpdatePhi(g.fa_w, Dense(update_v), Value(g.alpha) * Value(g.beta)),
                 !.fa_theta = UpdateActionPhi(g.fa_theta, Dense(update_q), t.action, Value(g.alpha))]

\* handle_terminal that forgets to step beta.
GQHandleTerminal_BetaKept(g) ==
    [g EXCEPT !.alpha = Step(g.alpha),
              !.gamma = Step(g.gamma),
              !.policy = [c |-> Step(g.policy.c)]]

\* GreedyGQ::handle_terminal
GQHandleTerminal(g) ==
    [g EXCEPT !.alpha = Step(g.alpha),
              !.beta = Step(g.beta),
              !.gamma = Step(g.gamma),
              !.policy = [c |-> Step(g.policy.c)]]

\* GreedyGQ::new
GQNew(theta, w, alpha, beta, gamma) ==
    [fa_theta |-> theta,
     fa_w |-> w,
     policy |-> [c |-> Linear(1, 0)],
     alpha |-> alpha,
     beta |-> beta,
     gamma |-> gamma]

\* Controller::mu: the behaviour policy's sample.  The policy is stochastic
\* with every action in its support (a Boltzmann family policy), so any
\* action may come back.
GQMu(g, s) == Actions

GQIdle == gq = Idle /\ gqCall = Idle

GQInitOf(thetas, ws, alphas, betas, gammas) ==
    /\ \E theta \in thetas, w \in ws, alpha \in alphas, beta \in betas, gamma \in gammas :
          gq = GQNew(theta, w, alpha, beta, gamma)
    /\ gqCall = [op |-> "new", n |-> 0, samples |-> 0, terminals |-> 0, new |-> gq]

GQInit == GQInitOf(ThetaInits, {<<0, 0>>, <<1, 2>>}, {Linear(2, 1)}, {Fixed(1), Linear(2, 1)}, {Linear(2, 0)})

GQSampleOf(ts, max) ==
    /\ gqCall.n < max
    /\ \E t \in ts :
         \E na \in GQMu(gq, t.to) :
            /\ gq' = GQHandleSample(gq, t, na)
            /\ gqCall' = [op |-> "handle_sample", n |-> gqCall.n + 1,
                          samples |-> gqCall.samples + 1, terminals |-> gqCall.terminals,
                          new |-> gqCall.new, t |-> t, na |-> na, pre |-> gq]

GQTerminalOf(max) ==
    /\ gqCall.n < max
    /\ gq' = GQHandleTerminal(gq)
    /\ gqCall' = [op |-> "handle_terminal", n |-> gqCall.n + 1, samples |-> gqCall.samples,
                  terminals |-> gqCall.terminals + 1, new |-> gqCall.new, pre |-> gq]

GQSample == GQSampleOf(Transitions, MaxGQCalls) /\ UNCHANGED <<ql, qlCall, lstd, lstdCall, ac, acCall, bz, bzCall>>

GQTerminal == GQTerminalOf(MaxGQCalls) /\ UNCHANGED <<ql, qlCall, lstd, lstdCall, ac, acCall, bz, bzCall>>

\* Both learners driven side by side, each with its own episodes.
ParamTransitions == {Transition(2, 1, 1, 1)}

ParamQLSample == QLSampleOf(ParamTransitions, MaxParamCalls) /\ UNCHANGED <<gq, gqCall, lstd, lstdCall, ac, acCall, bz, bzCall>>

ParamQLTerminal == QLTerminalOf(MaxParamCalls) /\ UNCHANGED <<gq, gqCall, lstd, lstdCall, ac, acCall, bz, bzCall>>

ParamGQSample == GQSampleOf(ParamTransitions, MaxParamCalls) /\ UNCHANGED <<ql, qlCall, lstd, lstdCall, ac, acCall, bz, bzCall>>

ParamGQTerminal == GQTerminalOf(MaxParamCalls) /\ UNCHANGED <<ql, qlCall, lstd, lstdCall, ac, acCall, bz, bzCall>>

(***************************************************************************)
(* prediction/lstd/lstd_lambda.rs                                          *)
(***************************************************************************)
MZeros(n) == [i \in 1..n |-> Zeros(n)]

MAdd(m1, m2) == [i \in 1..Len(m1) |-> VAdd(m1[i], m2[i])]

\* column z times row pd
Outer(z, pd) == [i \in 1..Len(z) |-> VScale(z[i], pd)]

MatVec(m, v) == [i \in 1..Len(m) |-> Dot(m[i], v)]

Transpose(m) == [j \in 1..Len(m) |-> [i \in 1..Len(m) |-> m[i][j]]]

Det2(m) == m[1][1] * m[2][2] - m[1][2] * m[2][1]

\* ndarray_linalg's a.solve(&b) for the 2x2 systems of this projector: an LU
\* solve, which fails on a singular matrix.  The solution is the exact
\* fraction num/den (Cramer's rule).
DirectSolve(m, v) ==
    IF Det2(m) = 0 THEN [ok |-> FALSE]
    ELSE [ok |-> TRUE,
          theta |-> [num |-> <<m[2][2] * v[1] - m[1][2] * v[2], m[1][1] * v[2] - m[2][1] * v[1]>>,
                     den |-> Det2(m)]]

\* utils::pinv(a).dot(b) for a singular 2x2 matrix: the Moore-Penrose inverse
\* of a matrix of rank one is its transpose over the sum of its squared
\* entries, and that of the zero matrix is zero.  The decomposition under it
\* can fail (svd_ok = FALSE).
PinvDot(m, v, svd_ok) ==
    LET norm2 == Sum([i \in 1..Len(m) |-> Dot(m[i], m[i])])
    IN IF ~svd_ok THEN [ok |-> FALSE]
       ELSE IF norm2 = 0 THEN [ok |-> TRUE, theta |-> [num |-> Zeros(Len(v)), den |-> 1]]
       ELSE [ok |-> TRUE, theta |-> [num |-> MatVec(Transpose(m), v), den |-> norm2]]

LSTDComputeDenseFv(st, s) == Expanded(Project(s), Len(st.a))

\* LSTDLambda::update_trace
LSTDUpdateTrace(st, phi) ==
    LET decay_rate == Value(st.trace.lambda) * Value(st.gamma)
    IN [st EXCEPT !.trace = TraceUpdate(TraceDecay(st.trace, decay_rate), phi)]

\* the body of handle_batch's loop that takes the outer product with the
\* trace as it is after the terminal reset
LSTDBatchStep_TraceAfterReset(st, t) ==
    LET phi_s == LSTDComputeDenseFv(st, t.from)
        st1 == LSTDUpdateTrace(st, phi_s)
        st2 == [st1 EXCEPT !.b = VAdd(@, VScale(t.reward, TraceGet(st1.trace)))]
        st3 == IF t.terminated THEN [st2 EXCEPT !.trace = TraceDecay(@, 0)] ELSE st2
        pd == IF t.terminated THEN phi_s
              ELSE VAdd(phi_s, VScale(0 - Value(st.gamma), LSTDComputeDenseFv(st, t.to)))
    IN [st3 EXCEPT !.a = MAdd(@, Outer(TraceGet(st3.trace), pd))]

\* the body of handle_batch's loop, for one transition
LSTDBatchStep(st, t) ==
    LET phi_s == LSTDComputeDenseFv(st, t.from)
        st1 == LSTDUpdateTrace(st, phi_s)
        z == TraceGet(st1.trace)
        st2 == [st1 EXCEPT !.b = VAdd(@, VScale(t.reward, z))]
        st3 == IF t.terminated THEN [st2 EXCEPT !.trace = TraceDecay(@, 0)] ELSE st2
        pd == IF t.terminated THEN phi_s
              ELSE VAdd(phi_s, VScale(0 - Value(st.gamma), LSTDComputeDenseFv(st, t.to)))
    IN [st3 EXCEPT !.a = MAdd(@, Outer(z, pd))]

RECURSIVE LSTDForEach(_, _)
LSTDForEach(st, ts) == IF ts = <<>> THEN st ELSE LSTDForEach(LSTDBatchStep(st, Head(ts)), Tail(ts))

\* which arm of solve runs
LSTDSolveArm(st, svd_ok) ==
    IF DirectSolve(st.a, st.b).ok THEN "direct"
    ELSE IF PinvDot(st.a, st.b, svd_ok).ok THEN "pinv"
    ELSE "none"

\* solve with an else arm that clears the weights when both solves fail
LSTDSolve_ClearOnFailure(st, svd_ok) ==
    IF DirectSolve(st.a, st.b).ok
    THEN [st EXCEPT !.fa_theta = DirectSolve(st.a, st.b).theta]
    ELSE IF PinvDot(st.a, st.b, svd_ok).ok
    THEN [st EXCEPT !.fa_theta = PinvDot(st.a, st.b, svd_ok).theta]
    ELSE [st EXCEPT !.fa_theta = [num |-> Zeros(Len(st.b)), den |-> 1]]

\* LSTDLambda::solve
LSTDSolve(st, svd_ok) ==
    IF DirectSolve(st.a, st.b).ok
    THEN [st EXCEPT !.fa_theta = DirectSolve(st.a, st.b).theta]
    ELSE IF PinvDot(st.a, st.b, svd_ok).ok
    THEN [st EXCEPT !.fa_theta = PinvDot(st.a, st.b, svd_ok).theta]
    ELSE st

\* handle_batch that starts every batch from a fresh trace
LSTDHandleBatch_FreshTrace(st, ts, svd_ok) ==
    LSTDSolve(LSTDForEach([st EXCEPT !.trace = TraceDecay(@, 0)], ts), svd_ok)

\* LSTDLambda::handle_batch
LSTDHandleBatch(st, ts, svd_ok) == LSTDSolve(LSTDForEach(st, ts), svd_ok)

\* LSTDLambda::handle_terminal
LSTDHandleTerminal(st) == [st EXCEPT !.gamma = Step(st.gamma)]

\* LSTDLambda::new
LSTDNew(weights, lambda, gamma) ==
    [fa_theta |-> weights,
     gamma |-> gamma,
     trace |-> [lambda |-> lambda, acc |-> Zeros(Dim)],
     a |-> MZeros(Dim),
     b |-> Zeros(Dim)]

\* The transitions of a two-state domain that pays 1 on reaching state 1 and
\* 2 on reaching state 2; any move may end the episode.
LSTDTransitions ==
    {[from |-> s, to |-> ns, reward |-> ns, terminated |-> term] :
        s \in States, ns \in States, term \in BOOLEAN}

\* the batches a call may submit when `room` transitions can still be taken:
\* every sequence of at most `room` transitions
RECURSIVE Batches(_)
Batches(room) ==
    IF room = 0 THEN {<<>>}
    ELSE Batches(room - 1) \cup
         {Append(ts, t) : ts \in {b \in Batches(room - 1) : Len(b) = room - 1}, t \in LSTDTransitions}

LSTDIdle == lstd = Idle /\ lstdCall = Idle

LSTDInit ==
    /\ \E weights \in {[num |-> <<1, 2>>, den |-> 1]}, gamma \in {Fixed(1), Linear(2, 0)} :
          lstd = LSTDNew(weights, Fixed(2), gamma)
    /\ lstdCall = [op |-> "new", work |-> 0, log |-> <<>>, arms |-> {}, new |-> lstd]

\* whether the decomposition under pinv succeeds is the backend's to say; it
\* is consulted only when the direct solve has failed
SvdOutcomes(st) == IF DirectSolve(st.a, st.b).ok THEN {TRUE} ELSE BOOLEAN

LSTDBatch ==
    /\ lstdCall.work < MaxLSTDWork
    /\ \E ts \in Batches(MaxLSTDWork - lstdCall.work) :
         LET accumulated == LSTDForEach(lstd, ts)
         IN \E svd_ok \in SvdOutcomes(accumulated) :
            /\ lstd' = LSTDHandleBatch(lstd, ts, svd_ok)
            /\ lstdCall' = [op |-> "handle_batch", work |-> lstdCall.work + Max(1, Len(ts)),
                            log |-> lstdCall.log \o [i \in 1..Len(ts) |-> [t |-> ts[i], gamma |-> Value(lstd.gamma)]],
                            arms |-> lstdCall.arms,
                            new |-> lstdCall.new, ts |-> ts, svd_ok |-> svd_ok, pre |-> lstd,
                            arm |-> LSTDSolveArm(accumulated, svd_ok), ret |-> "()"]
    /\ UNCHANGED <<ql, qlCall, gq, gqCall, ac, acCall, bz, bzCall>>

LSTDSolveCall ==
    /\ \E svd_ok \in SvdOutcomes(lstd) :
            /\ lstd' = LSTDSolve(lstd, svd_ok)
            /\ lstdCall' = [op |-> "solve", work |-> lstdCall.work, log |-> lstdCall.log,
                            arms |-> lstdCall.arms \cup {LSTDSolveArm(lstd, svd_ok)},
                            new |-> lstdCall.new, svd_ok |-> svd_ok, pre |-> lstd,
                            arm |-> LSTDSolveArm(lstd, svd_ok), ret |-> "()"]
    /\ UNCHANGED <<ql, qlCall, gq, gqCall, ac, acCall, bz, bzCall>>

LSTDTerminal ==
    /\ lstdCall.work < MaxLSTDWork
    /\ lstd' = LSTDHandleTerminal(lstd)
    /\ lstdCall' = [op |-> "handle_terminal", work |-> lstdCall.work + 1, log |-> lstdCall.log,
                    arms |-> lstdCall.arms, new |-> lstdCall.new, pre |-> lstd]
    /\ UNCHANGED <<ql, qlCall, gq, gqCall, ac, acCall, bz, bzCall>>

(***************************************************************************)
(* agents/actor_critic.rs                                                  *)
(***************************************************************************)
\* The actor, a vector-valued linear function, and the critic, a scalar one,
\* over the shared projector.  update(s, errors) moves each output's weights
\* along phi(s) by that output's error.
ActorEvaluate(actor, s) == MultiEvaluate(actor, s)

ActorNOutputs(actor) == Cardinality(DOMAIN actor)

ActorUpdate(actor, s, errors) == [a \in DOMAIN actor |-> UpdatePhi(actor[a], Project(s), errors[a])]

CriticEvaluate(critic, s) == EvaluatePhi(critic, Project(s))

CriticUpdate(critic, s, error) == UpdatePhi(critic, Project(s), error)

\* policy.sample on a vector of action values: the greedy policy of
\* policies::Greedy, any maximal action on a tie
ACPolicySample(qs) == Argmaxima(qs)

ACDelta(st, t) ==
    t.reward + st.gamma * CriticEvaluate(st.critic, t.to) - CriticEvaluate(st.critic, t.from)

ACErrors(st, t) ==
    [a \in 0..(ActorNOutputs(st.actor) - 1) |-> IF a = t.action THEN st.beta * ACDelta(st, t) ELSE 0]

\* the values handle passes to policy.sample, taken from the actor before
\* its update
ACSampledValues_BeforeUpdate(st, t) == ActorEvaluate(st.actor, t.to)

\* the values handle passes to policy.sample: the updated actor at ns
ACSampledValues(st, t) == ActorEvaluate(ActorUpdate(st.actor, t.from, ACErrors(st, t)), t.to)

\* ActorCritic::handle: the object after the call and the calls it made on
\* the actor and the critic, in order
ACHandle(st, t) ==
    LET delta == ACDelta(st, t)
        errors == ACErrors(st, t)
    IN [st |-> [st EXCEPT !.actor = ActorUpdate(st.actor, t.from, errors),
                           !.critic = CriticUpdate(st.critic, t.from, st.alpha * delta)],
        calls |-> <<[fn |-> "actor.update", s |-> t.from, errors |-> errors],
                    [fn |-> "critic.update", s |-> t.from, error |-> st.alpha * delta]>>]

\* ActorCritic::new
ACNew(actor, critic, alpha, beta, gamma) ==
    [actor |-> actor, critic |-> critic, alpha |-> alpha, beta |-> beta, gamma |-> gamma]

ACIdle == ac = Idle /\ acCall = Idle

ACInit ==
    /\ \E actor \in ThetaInits, critic \in {<<0, 0>>, <<1, 2>>},
          alpha \in {1, 2}, beta \in {1, 2}, gamma \in {1, 2} :
          ac = ACNew(actor, critic, alpha, beta, gamma)
    /\ acCall = [op |-> "new", n |-> 0]

ACHandleCall ==
    /\ acCall.n < MaxACCalls
    /\ \E t \in Transitions :
         \E ret \in ACPolicySample(ACSampledValues(ac, t)) :
            /\ ac' = ACHandle(ac, t).st
            /\ acCall' = [op |-> "handle", n |-> acCall.n + 1, t |-> t, pre |-> ac,
                          calls |-> ACHandle(ac, t).calls, ret |-> ret]
    /\ UNCHANGED <<ql, qlCall, gq, gqCall, lstd, lstdCall, bz, bzCall>>

(***************************************************************************)
(* policies/boltzmann.rs, policies/mod.rs                                  *)
(***************************************************************************)
\* usize arithmetic: len() - 1 on an empty vector panics in a build with
\* overflow checks and wraps in one without.  The word is the 16 bits Rust
\* guarantees a usize to have at least.
UsizeModulus == 2 ^ 16

UsizeSubOne(n, overflow_checks) ==
    IF n >= 1 THEN [tag |-> "Ok", value |-> n - 1]
    ELSE IF overflow_checks THEN [tag |-> "Panic", msg |-> "attempt to subtract with overflow"]
    ELSE [tag |-> "Ok", value |-> (n - 1) % UsizeModulus]

RECURSIVE SeqMax(_, _)
SeqMax(qs, n) == IF n = 0 THEN "f64::MIN" ELSE IF n = 1 THEN qs[1] ELSE Max(qs[n], SeqMax(qs, n - 1))

RECURSIVE SeqMin(_, _)
SeqMin(qs, n) == IF n = 1 THEN qs[1] ELSE IF qs[n] <= SeqMin(qs, n - 1) THEN qs[n] ELSE SeqMin(qs, n - 1)

\* Boltzmann::probabilities.  tau is 1/ln(base), so that exp((q - mq)/tau) is
\* base^(q - mq), a power of a whole number; the weights are held over their
\* common denominator base^(mq - min), which cancels in w / z.  The result is
\* the vector num[i]/den.  On an empty vector nothing is mapped and the
\* result is the empty vector.
BoltzmannProbabilities(p, qs) ==
    IF qs = <<>> THEN [num |-> <<>>, den |-> 0]
    ELSE LET mq == SeqMax(qs, Len(qs))
             k == mq - SeqMin(qs, Len(qs))
             ws == [i \in 1..Len(qs) |-> p.base ^ (k - (mq - qs[i]))]
         IN [num |-> ws, den |-> Sum(ws)]

\* ps.iter().position(|p| *p > r): Some(0-based index) or None
PositionAbove(ps, r) ==
    LET hits == {i \in 1..Len(ps.num) : ps.num[i] * r.den > r.num * ps.den}
    IN IF hits = {} THEN [some |-> FALSE]
       ELSE [some |-> TRUE, index |-> (CHOOSE i \in hits : \A j \in hits : i <= j) - 1]

\* Policy::sample for Boltzmann, with the uniform draw r
BoltzmannSample(p, qs, r) ==
    LET ps == BoltzmannProbabilities(p, qs)
        pos == PositionAbove(ps, r)
    IN IF pos.some THEN [tag |-> "Ok", value |-> pos.index]
       ELSE UsizeSubOne(Len(ps.num), p.overflow_checks)

\* the running sums of scan(0.0, |state, &p| state + p), over the same
\* denominator
Scan(ps) == [num |-> [i \in 1..Len(ps.num) |-> SumTo(ps.num, i)], den |-> ps.den]

\* sample_probs_with_rng, with the uniform draw r
SampleProbsWithRng(p, ps, r) ==
    LET pos == PositionAbove(Scan(ps), r)
    IN IF pos.some THEN [tag |-> "Ok", value |-> pos.index]
       ELSE UsizeSubOne(Len(ps.num), p.overflow_checks)

\* Boltzmann::new, in a build with or without overflow checks
BoltzmannNew(base, overflow_checks) == [base |-> base, overflow_checks |-> overflow_checks]

Scores == {0, 1, 2}

RECURSIVE SeqsUpTo(_, _)
SeqsUpTo(S, n) ==
    IF n = 0 THEN {<<>>}
    ELSE SeqsUpTo(S, n - 1) \cup
         {Append(q, x) : q \in {b \in SeqsUpTo(S, n - 1) : Len(b) = n - 1}, x \in S}

ScoreVectors == SeqsUpTo(Scores, MaxScores)

\* the probability vectors handed to sample_probs_with_rng: quarters that sum
\* to one, and the empty vector
ProbVectors ==
    {[num |-> q, den |-> IF q = <<>> THEN 0 ELSE 4] :
        q \in {v \in SeqsUpTo(0..4, MaxScores) : v = <<>> \/ Sum(v) = 4}}

Draws == {[num |-> k, den |-> RngSteps] : k \in 0..(RngSteps - 1)}

BZIdle == bz = Idle /\ bzCall = Idle

BZInit ==
    /\ \E base \in {2, 3}, overflow_checks \in BOOLEAN : bz = BoltzmannNew(base, overflow_checks)
    /\ bzCall = [op |-> "new"]

BZProbabilities ==
    /\ \E qs \in ScoreVectors :
          bzCall' = [op |-> "probabilities", qs |-> qs,
                     ret |-> [tag |-> "Ok", value |-> BoltzmannProbabilities(bz, qs)]]
    /\ UNCHANGED <<bz, ql, qlCall, gq, gqCall, lstd, lstdCall, ac, acCall>>

BZSample ==
    /\ \E qs \in ScoreVectors, r \in Draws :
          bzCall' = [op |-> "sample", qs |-> qs, r |-> r, ret |-> BoltzmannSample(bz, qs, r)]
    /\ UNCHANGED <<bz, ql, qlCall, gq, gqCall, lstd, lstdCall, ac, acCall>>

BZSampleProbs ==
    /\ \E ps \in ProbVectors, r \in Draws :
          bzCall' = [op |-> "sample_probs_with_rng", ps |-> ps, r |-> r,
                     ret |-> SampleProbsWithRng(bz, ps, r)]
    /\ UNCHANGED <<bz, ql, qlCall, gq, gqCall, lstd, lstdCall, ac, acCall>>

(***************************************************************************)
(* Specifications.                                                         *)
(***************************************************************************)
InitQL == QLInit /\ GQIdle /\ LSTDIdle /\ ACIdle /\ BZIdle

NextQL == QLSample \/ QLTerminal

SpecQL == InitQL /\ [][NextQL]_vars

InitGQ == GQInit /\ QLIdle /\ LSTDIdle /\ ACIdle /\ BZIdle

NextGQ == GQSample \/ GQTerminal

SpecGQ == InitGQ /\ [][NextGQ]_vars

InitParams ==
    /\ QLInitOf({[a \in Actions |-> Zeros(Dim)]}, {Fixed(1), Linear(2, 1)}, {Linear(2, 0)})
    /\ GQInitOf({[a \in Actions |-> Zeros(Dim)]}, {<<0, 0>>}, {Linear(2, 1)}, {Fixed(1), Linear(2, 1)}, {Linear(2, 0)})
    /\ LSTDIdle /\ ACIdle /\ BZIdle

NextParams == ParamQLSample \/ ParamQLTerminal \/ ParamGQSample \/ ParamGQTerminal

SpecParams == InitParams /\ [][NextParams]_vars

InitLSTD == LSTDInit /\ QLIdle /\ GQIdle /\ ACIdle /\ BZIdle

NextLSTD == LSTDBatch \/ LSTDSolveCall \/ LSTDTerminal

SpecLSTD == InitLSTD /\ [][NextLSTD]_vars

InitAC == ACInit /\ QLIdle /\ GQIdle /\ LSTDIdle /\ BZIdle

NextAC == ACHandleCall

SpecAC == InitAC /\ [][NextAC]_vars

InitBZ == BZInit /\ QLIdle /\ GQIdle /\ LSTDIdle /\ ACIdle

NextBZ == BZProbabilities \/ BZSample \/ BZSampleProbs

SpecBZ == InitBZ /\ [][NextBZ]_vars

(***************************************************************************)
(* Properties.                                                             *)
(***************************************************************************)
\* C1: QLambda.handle_sample applies Watkins' cut.  The greedy action at the
\* from-state is maximal under the weights as they were before the call; if
\* the taken action is that action the trace becomes
\* lambda*gamma*old_trace + phi_s, otherwise it becomes exactly phi_s.
C1_WatkinsCut ==
    qlCall.op = "handle_sample" =>
        LET pre == qlCall.pre
            t == qlCall.t
            phi_s == Expanded(Project(t.from), Dim)
            qs == [a \in Actions |-> Dot(pre.fa_theta[a], phi_s)]
            rate == Value(pre.trace.lambda) * Value(pre.gamma)
        IN /\ \A b \in Actions : qs[qlCall.g_s] >= qs[b]
           /\ IF t.action = qlCall.g_s
              THEN ql.trace.acc = VAdd(VScale(rate, pre.trace.acc), phi_s)
              ELSE ql.trace.acc = phi_s

\* a greedy action taken on a trace that holds eligibility, at a rate that
\* is neither 0 nor 1
C1_Witness ==
    /\ qlCall.op = "handle_sample"
    /\ qlCall.t.action = qlCall.g_s
    /\ qlCall.pre.trace.acc # Zeros(Dim)
    /\ Value(qlCall.pre.trace.lambda) * Value(qlCall.pre.gamma) > 1
    /\ ql.trace.acc # Expanded(Project(qlCall.t.from), Dim)

\* C2: for GreedyGQ (alpha, beta, gamma) and QLambda (alpha, gamma), after N
\* handle_terminal calls each parameter is its schedule stepped N times from
\* its initial value, however many handle_sample calls were made and
\* wherever; handle_sample leaves every parameter as it was.
C2_ParamsSteppedPerTerminal ==
    /\ ql.alpha = StepN(qlCall.new.alpha, qlCall.terminals)
    /\ ql.gamma = StepN(qlCall.new.gamma, qlCall.terminals)
    /\ gq.alpha = StepN(gqCall.new.alpha, gqCall.terminals)
    /\ gq.beta = StepN(gqCall.new.beta, gqCall.terminals)
    /\ gq.gamma = StepN(gqCall.new.gamma, gqCall.terminals)
    /\ qlCall.op = "handle_sample" =>
          ql.alpha = qlCall.pre.alpha /\ ql.gamma = qlCall.pre.gamma
    /\ gqCall.op = "handle_sample" =>
          gq.alpha = gqCall.pre.alpha /\ gq.beta = gqCall.pre.beta /\ gq.gamma = gqCall.pre.gamma

\* two episodes ended on each learner, with samples fed in between, and
\* decaying parameters that have moved
C2_Witness ==
    /\ qlCall.terminals = 2 /\ qlCall.samples = 1 /\ qlCall.op = "handle_terminal"
    /\ gqCall.terminals = 2 /\ gqCall.samples = 1 /\ gqCall.op = "handle_terminal"
    /\ Value(ql.alpha) # Value(qlCall.new.alpha)
    /\ Value(gq.beta) # Value(gqCall.new.beta)
    /\ Value(gq.gamma) = Value(gqCall.new.gamma) - 2

\* C7: GreedyGQ.handle_sample bootstraps on na, the behaviour policy's sample
\* at ns; td_estimate = w(s) and td_error are taken from the weights before
\* the call; w moves by alpha*beta*(td_error - td_estimate)*phi_s and theta,
\* at the taken action only, by
\* alpha*(td_error*phi_s - gamma*td_estimate*phi_ns).
C7_GQUpdate ==
    gqCall.op = "handle_sample" =>
        LET pre == gqCall.pre
            t == gqCall.t
            phi_s == Expanded(Project(t.from), Dim)
            phi_ns == Expanded(Project(t.to), Dim)
            alpha == Value(pre.alpha)
            beta == Value(pre.beta)
            gamma == Value(pre.gamma)
            td_estimate == Dot(pre.fa_w, phi_s)
            td_error == t.reward + gamma * Dot(pre.fa_theta[gqCall.na], phi_ns)
                                 - Dot(pre.fa_theta[t.action], phi_s)
        IN /\ gq.fa_w = [i \in 1..Dim |->
                            pre.fa_w[i] + alpha * beta * (td_error - td_estimate) * phi_s[i]]
           /\ gq.fa_theta = [a \in Actions |-> [i \in 1..Dim |->
                 IF a = t.action
                 THEN pre.fa_theta[a][i]
                      + alpha * (td_error * phi_s[i] - gamma * td_estimate * phi_ns[i])
                 ELSE pre.fa_theta[a][i]]]

\* the behaviour policy drew an action that is not greedy at ns and is worth
\* less there, and the update of w changed w(s)
C7_Witness ==
    /\ gqCall.op = "handle_sample"
    /\ LET pre == gqCall.pre
           t == gqCall.t
           nqs == MultiEvaluate(pre.fa_theta, t.to)
       IN /\ gqCall.na \notin Argmaxima(nqs)
          /\ Value(pre.gamma) # 0
          /\ EvaluatePhi(pre.fa_w, Project(t.from)) # 0
          /\ EvaluatePhi(gq.fa_w, Project(t.from)) # EvaluatePhi(pre.fa_w, Project(t.from))

\* C10: right after QLambda.handle_terminal the trace is zero and theta is as
\* it was; the first handle_sample after it leaves the trace equal to phi_s
\* and moves theta, at the taken action, by alpha*td_error*phi_s, whether or
\* not the taken action is greedy.
C10_TerminalResetsTrace ==
    /\ qlCall.op = "handle_terminal" =>
          /\ ql.trace.acc = Zeros(Dim)
          /\ ql.fa_theta = qlCall.pre.fa_theta
    /\ (qlCall.op = "handle_sample" /\ qlCall.dropped # <<>>) =>
          LET pre == qlCall.pre
              t == qlCall.t
              phi_s == Expanded(Project(t.from), Dim)
              phi_ns == Expanded(Project(t.to), Dim)
              td_error == t.reward + Value(pre.gamma) * Dot(pre.fa_theta[qlCall.g_ns], phi_ns)
                                   - Dot(pre.fa_theta[t.action], phi_s)
          IN /\ ql.trace.acc = phi_s
             /\ ql.fa_theta = [a \in Actions |-> [i \in 1..Dim |->
                   IF a = t.action
                   THEN pre.fa_theta[a][i] + Value(pre.alpha) * td_error * phi_s[i]
                   ELSE pre.fa_theta[a][i]]]

\* a greedy action is the first sample after a terminal that discarded a
\* trace holding eligibility, and the update moved theta
C10_Witness ==
    /\ qlCall.op = "handle_sample"
    /\ qlCall.dropped \notin {<<>>, Zeros(Dim)}
    /\ qlCall.t.action = qlCall.g_s
    /\ ql.fa_theta # qlCall.pre.fa_theta

\* What one transition adds, written out: x holds A, b and the trace z;
\* lambda and gamma are the values in force when the transition is submitted.
RefTransition(x, t, lambda, gamma) ==
    LET phi_s == Expanded(Project(t.from), Dim)
        phi_ns == Expanded(Project(t.to), Dim)
        z == [i \in 1..Dim |-> lambda * gamma * x.z[i] + phi_s[i]]
        row == [j \in 1..Dim |-> IF t.terminated THEN phi_s[j] ELSE phi_s[j] - gamma * phi_ns[j]]
    IN [a |-> [i \in 1..Dim |-> [j \in 1..Dim |-> x.a[i][j] + z[i] * row[j]]],
        b |-> [i \in 1..Dim |-> x.b[i] + t.reward * z[i]],
        z |-> IF t.terminated THEN Zeros(Dim) ELSE z]

\* the contributions of the logged transitions, first to last
RECURSIVE RefReplay(_, _, _)
RefReplay(x, log, lambda) ==
    IF log = <<>> THEN x
    ELSE RefReplay(RefTransition(x, Head(log).t, lambda, Head(log).gamma), Tail(log), lambda)

\* C3: LSTDLambda.handle_batch takes the transitions in submission order; for
\* each the trace is decayed by lambda*gamma and phi_s added (z), b gains
\* reward*z, A gains outer(z, target row) with the target row phi_s for a
\* terminated transition and phi_s - gamma*phi_ns otherwise, and a terminated
\* transition leaves a zero trace to the next one.
C3_BatchPerTransition ==
    lstdCall.op = "handle_batch" =>
        LET pre == lstdCall.pre
            ts == lstdCall.ts
            log == [i \in 1..Len(ts) |-> [t |-> ts[i], gamma |-> Value(pre.gamma)]]
            x == RefReplay([a |-> pre.a, b |-> pre.b, z |-> pre.trace.acc], log,
                           Value(pre.trace.lambda))
        IN lstd.a = x.a /\ lstd.b = x.b /\ lstd.trace.acc = x.z

\* a batch of a terminated transition followed by a live one: the terminated
\* one has added outer(z, phi_s) to A, and the trace is the follower's phi_s
C3_Witness ==
    /\ lstdCall.op = "handle_batch"
    /\ Len(lstdCall.ts) = 2
    /\ lstdCall.ts[1].terminated /\ ~lstdCall.ts[2].terminated
    /\ lstdCall.ts[1].from # lstdCall.ts[2].from
    /\ lstd.trace.acc = Expanded(Project(lstdCall.ts[2].from), Dim)
    /\ LET phi == Expanded(Project(lstdCall.ts[1].from), Dim)
           only2 == RefTransition([a |-> lstdCall.pre.a, b |-> lstdCall.pre.b, z |-> Zeros(Dim)],
                                  lstdCall.ts[2], Value(lstd.trace.lambda), Value(lstd.gamma))
       IN lstd.a = MAdd(only2.a, Outer(phi, phi)) /\ lstd.a # only2.a

\* C4: LSTDLambda.solve has three outcomes: the direct solve succeeds and the
\* weights become the theta with A*theta = b (the pseudo-inverse unused); it
\* fails, pinv succeeds and the weights become pinv(A)*b, the least-squares
\* solution of least norm; both fail and the weights stay as they were, with
\* nothing reported to the caller.  A, b, the trace and gamma stay as they
\* were in every outcome.
C4_SolveOutcomes ==
    lstdCall.op = "solve" =>
        LET pre == lstdCall.pre
            A == pre.a
            b == pre.b
            det == A[1][1] * A[2][2] - A[1][2] * A[2][1]
            w == lstd.fa_theta
            At == [j \in 1..Dim |-> [i \in 1..Dim |-> A[i][j]]]
            AtA == [i \in 1..Dim |-> [j \in 1..Dim |-> Dot(At[i], [k \in 1..Dim |-> A[k][j]])]]
        IN /\ lstd.a = pre.a /\ lstd.b = pre.b /\ lstd.trace = pre.trace /\ lstd.gamma = pre.gamma
           /\ lstdCall.ret = "()"
           /\ det # 0 =>
                 /\ lstdCall.arm = "direct"
                 /\ w.den # 0
                 /\ MatVec(A, w.num) = VScale(w.den, b)
           /\ (det = 0 /\ lstdCall.svd_ok) =>
                 /\ lstdCall.arm = "pinv"
                 /\ w.den > 0
                 /\ MatVec(AtA, w.num) = VScale(w.den, MatVec(At, b))
                 /\ \A i \in 1..Dim : Dot(<<0 - A[i][2], A[i][1]>>, w.num) = 0
                 /\ (\A i, j \in 1..Dim : A[i][j] = 0) => w.num = Zeros(Dim)
           /\ (det = 0 /\ ~lstdCall.svd_ok) =>
                 /\ lstdCall.arm = "none"
                 /\ w = pre.fa_theta

\* solve has been through all three outcomes on this object: the double
\* failure that kept weights other than zero, the pseudo-inverse, and last
\* the direct solve of a system with b other than zero
C4_Witness ==
    /\ lstdCall.op = "solve"
    /\ lstdCall.arms = {"direct", "pinv", "none"}
    /\ lstdCall.arm = "direct"
    /\ lstdCall.new.fa_theta.num # Zeros(Dim)
    /\ lstd.b # Zeros(Dim)
    /\ lstd.fa_theta.num # Zeros(Dim)

\* C9: A and b are never reset: they are the sum of the contributions of all
\* transitions ever submitted, in order, and with them the trace is what
\* one batch of all of them would leave (with the gamma in force at each);
\* handle_terminal changes gamma and nothing else.
C9_AccumulateForever ==
    /\ LET x == RefReplay([a |-> MZeros(Dim), b |-> Zeros(Dim), z |-> Zeros(Dim)],
                          lstdCall.log, Value(lstdCall.new.trace.lambda))
       IN lstd.a = x.a /\ lstd.b = x.b /\ lstd.trace.acc = x.z
    /\ lstdCall.op = "handle_terminal" =>
          /\ lstd.a = lstdCall.pre.a /\ lstd.b = lstdCall.pre.b
          /\ lstd.trace = lstdCall.pre.trace
          /\ lstd.fa_theta = lstdCall.pre.fa_theta
          /\ lstd.gamma = Step(lstdCall.pre.gamma)

\* a second batch arrives on a trace the first batch left behind, and A
\* holds what both added
C9_Witness ==
    /\ lstdCall.op = "handle_batch"
    /\ Len(lstdCall.log) = 2 /\ Len(lstdCall.ts) = 1
    /\ lstdCall.pre.trace.acc # Zeros(Dim)
    /\ lstdCall.pre.a # MZeros(Dim)
    /\ lstd.a # lstdCall.pre.a
    /\ lstd.trace.acc # Expanded(Project(lstdCall.ts[1].from), Dim)

\* C5: Boltzmann.sample returns the first index whose cumulative probability
\* exceeds the draw r, the last index when there is none: the index
\* sample_probs_with_rng selects on the same probabilities and the same r.
C5_SampleIsInverseCdf ==
    bzCall.op = "sample" =>
        LET ps == BoltzmannProbabilities(bz, bzCall.qs)
            r == bzCall.r
            cum == [i \in 1..Len(ps.num) |-> SumTo(ps.num, i)]
            above == {i \in 1..Len(ps.num) : cum[i] * r.den > r.num * ps.den}
        IN /\ bzCall.ret = SampleProbsWithRng(bz, ps, r)
           /\ bzCall.qs # <<>> =>
                 /\ bzCall.ret.tag = "Ok"
                 /\ bzCall.ret.value + 1 =
                       IF above = {} THEN Len(ps.num)
                       ELSE CHOOSE i \in above : \A j \in above : i <= j

\* C6: every ActorCritic.handle(t) makes one actor update and then one critic
\* update, both at s, from delta = reward + gamma*critic(ns) - critic(s) taken
\* on the critic as it was; the actor's errors have n_outputs entries, zero
\* but for beta*delta at t.action; the critic's error is alpha*delta; the
\* action returned is the policy's sample of the updated actor at ns; alpha,
\* beta and gamma stay as they were.
C6_ActorCriticStep ==
    acCall.op = "handle" =>
        LET pre == acCall.pre
            t == acCall.t
            phi_s == Expanded(Project(t.from), Dim)
            phi_ns == Expanded(Project(t.to), Dim)
            delta == t.reward + pre.gamma * Dot(pre.critic, phi_ns) - Dot(pre.critic, phi_s)
            errors == [a \in Actions |-> IF a = t.action THEN pre.beta * delta ELSE 0]
            nqs == [a \in Actions |-> Dot(ac.actor[a], phi_ns)]
        IN /\ acCall.calls = <<[fn |-> "actor.update", s |-> t.from, errors |-> errors],
                               [fn |-> "critic.update", s |-> t.from, error |-> pre.alpha * delta]>>
           /\ DOMAIN acCall.calls[1].errors = 0..(Cardinality(DOMAIN pre.actor) - 1)
           /\ ac.actor = [a \in Actions |-> [i \in 1..Dim |->
                             pre.actor[a][i] + errors[a] * phi_s[i]]]
           /\ ac.critic = [i \in 1..Dim |-> pre.critic[i] + pre.alpha * delta * phi_s[i]]
           /\ \A b \in Actions : nqs[acCall.ret] >= nqs[b]
           /\ ac.alpha = pre.alpha /\ ac.beta = pre.beta /\ ac.gamma = pre.gamma

\* a step with a TD error other than zero whose actor update changed which
\* action is best at ns: the action returned was not maximal before it
C6_Witness ==
    /\ acCall.op = "handle"
    /\ acCall.calls[2].error # 0
    /\ acCall.ret \notin Argmaxima(MultiEvaluate(acCall.pre.actor, acCall.t.to))
    /\ ac.critic # acCall.pre.critic

\* C8: an empty score vector given to Boltzmann.probabilities or
\* Boltzmann.sample, or an empty probability vector given to
\* sample_probs_with_rng, ends in an error and returns neither a probability
\* vector nor an action index.
C8_EmptyInputFailsFast ==
    LET empty == \/ bzCall.op \in {"probabilities", "sample"} /\ bzCall.qs = <<>>
                 \/ bzCall.op = "sample_probs_with_rng" /\ bzCall.ps.num = <<>>
    IN empty => bzCall.ret.tag = "Panic"

====
